---- MODULE Spec2Model ----
(***************************************************************************)
(* Model of LinuxContigPhysPages.c: allocate_phys_mem (the probe-and-select *)
(* search for a pinned, cache-friendly block) and free_phys_mem.            *)
(*                                                                          *)
(* A uint32_t byte count v is held as the record [q, r] with                *)
(* v = q * pageSize + r, 0 <= r < pageSize, 0 <= q < 2^32 / pageSize, so    *)
(* that 32-bit wrap-around is exact while every number stays below 2^31.    *)
(***************************************************************************)
EXTENDS Integers, Sequences, FiniteSets, TLC

\* ---------------------------------------------------------------- constants
CACHE_GRANULARITY == 1048576
MAX_ATTEMPT == 1024

NULL == 0

\* ------------------------------------------------------------------- bounds
\* region addresses the allocator can hand out are 1..MaxAddr
MaxAddr == 2
\* sysconf(_SC_AVPHYS_PAGES) answers 0..MaxAvail
MaxAvail == 12
\* requests are limited to those whose normalized size has at most MaxPages pages
MaxPages == 4
\* the page map answers frame numbers 0..MaxFrame
MaxFrame == 3
\* number of allocate_phys_mem calls in one run of the process
MaxCalls == 2
\* calls are limited to those whose attempt budget is at most MaxTrials
MaxTrials == 3
\* the attempt budget, and the pages of a trial, of the calls of two threads
\* that are not serialized
MaxRaceTrials == 1

Threads == {"t1", "t2"}
\* the callers of the serialized specification
Callers == {"t1"}
Addrs == 1..MaxAddr
Frames == 0..MaxFrame
\* values sysconf(_SC_PAGESIZE) can answer
SysPageSizes == {4096, 16384, 65536, 262144, 1048576}

\* ------------------------------------------------------- 32-bit arithmetic
\* 2^32 / ps for a power of two ps
QLimit(ps) == 2 * ((2147483647 \div ps) + 1)

U32(q, r) == [q |-> q, r |-> r]

\* the uint32_t holding the constant c (c < 2^31)
FromConst(c, ps) == [q |-> c \div ps, r |-> c % ps]

\* v < c for a uint32_t v and a constant c
LessConst(v, c, ps) == v.q < c \div ps \/ (v.q = c \div ps /\ v.r < c % ps)

RECURSIVE BitAnd(_, _)
BitAnd(a, b) ==
  IF a = 0 \/ b = 0 THEN 0
  ELSE (a % 2) * (b % 2) + 2 * BitAnd(a \div 2, b \div 2)

RECURSIVE BitOr(_, _)
BitOr(a, b) ==
  IF a = 0 THEN b
  ELSE IF b = 0 THEN a
  ELSE (IF a % 2 = 1 \/ b % 2 = 1 THEN 1 ELSE 0) + 2 * BitOr(a \div 2, b \div 2)

\* 2^32 / 8: the number of 8-byte page-map entries a uint32_t byte offset reaches
EntryLimit == QLimit(8)

\* a page number or page-map entry index n = hi * EntryLimit + lo
Vpn(hi, lo) == [hi |-> hi, lo |-> lo]

VpnPlus(v, k) ==
  [hi |-> v.hi + (v.lo + k) \div EntryLimit, lo |-> (v.lo + k) % EntryLimit]

\* lines 91-93: round up to the next multiple of pageSize, modulo 2^32
RoundUpToPage(v, ps) ==
  IF v.r # 0 THEN [q |-> (v.q + 1) % QLimit(ps), r |-> 0] ELSE v

\* lines 95-97
RaiseToGranularity(v, ps) ==
  IF LessConst(v, CACHE_GRANULARITY, ps) THEN FromConst(CACHE_GRANULARITY, ps) ELSE v

\* lines 99-101
RaiseToPage(v, ps) ==
  IF LessConst(v, ps, ps) THEN FromConst(ps, ps) ELSE v

\* lines 90-101: the value of allocSize after normalization
NormalizeSize(v, ps) == RaiseToPage(RaiseToGranularity(RoundUpToPage(v, ps), ps), ps)

\* lines 80-81
CacheFriendlyFactor(ps) ==
  IF CACHE_GRANULARITY < 2 * ps THEN 1 ELSE CACHE_GRANULARITY \div ps - 1

\* the whole of the available memory is used
NumTrialsNoReserve(avail, v) ==
  LET n == avail \div v.q
  IN IF n > MAX_ATTEMPT THEN MAX_ATTEMPT ELSE n

\* lines 104-109: allocSize / pageSize is v.q
NumTrials(avail, v) ==
  LET n == ((avail \div v.q) * 3) \div 4
  IN IF n > MAX_ATTEMPT THEN MAX_ATTEMPT ELSE n

\* -------------------------------------------------------------------- state
VARIABLES
  \* process-wide (static) state of allocate_phys_mem
  pageSize,             \* 0 until the first call
  cacheFriendlyFactor,
  blockArray,           \* slot -> pointer, for the slots holding a determinate value
  \* the C library and the kernel
  regionBytes,          \* address -> size of the live allocation there, 0 if none
  pinned,               \* addresses whose pages are locked
  procExit,             \* the process has ended (exit(-1) or abort)
  \* the callers
  held,                 \* regions returned by allocate_phys_mem, not yet given back
  nCalls,               \* allocate_phys_mem calls made so far
  \* per thread: position and locals of allocate_phys_mem
  pc, allocSize, numTrials, trial, bestBlock, bestGapCount, physBlock,
  pagemap_fp, page, prev_page, pageGaps, unwind,
  \* per thread: locals of free_phys_mem
  relBlock, err,
  \* the argument of the call whose size normalization is examined alone
  argSize,
  \* the seek in the page map examined alone: the page number of the region's
  \* base address, and per thread the offset of line 150 and the file position
  blockVpn, pagemap_offset, filePos,
  \* per thread: what the primitives were asked to do (history)
  hist

procVars == <<pageSize, cacheFriendlyFactor, blockArray>>
osVars == <<regionBytes, pinned, procExit>>
callerVars == <<held, nCalls>>
searchVars == <<allocSize, numTrials, trial, bestBlock, bestGapCount, physBlock, pagemap_fp>>
walkVars == <<page, prev_page, pageGaps>>
relVars == <<relBlock, err, argSize>>
seekVars == <<blockVpn, pagemap_offset, filePos>>
vars == <<procVars, osVars, callerVars, pc, searchVars, walkVars, unwind, relVars, hist,
          seekVars>>

Allocated == {a \in Addrs : regionBytes[a] # 0}

\* the value read from blockArray[i]: any pointer value while the slot is
\* indeterminate (line 84 leaves the table uninitialized)
ReadVals(i) == IF i \in DOMAIN blockArray THEN {blockArray[i]} ELSE {NULL} \cup Addrs

Store(arr, i, v) == [k \in DOMAIN arr \cup {i} |-> IF k = i THEN v ELSE arr[k]]

Bytes(v) == v.q * pageSize + v.r

\* a thread is between calls
Idle(t) == pc[t] \in {"idle", "done", "freed"}

NoCount == [a \in Addrs |-> 0]

\* the history of one allocate_phys_mem call, at its entry
NewHist ==
  [ alloc    |-> {},        \* regions posix_memalign returned during the call
    pin      |-> {},        \* regions mlock accepted during the call
    score    |-> << >>,     \* trial -> [block, gaps, cand, disc, bad] of a scored walk:
                            \* gaps -1: broken off; cand: the scorer took it as complete
    unpin    |-> NoCount,   \* munlock calls of the call, per address
    free     |-> NoCount,   \* free calls of the call, per address
    nAlloc   |-> 0,         \* posix_memalign calls
    nPin     |-> 0,         \* mlock calls
    failAt   |-> -1,        \* the trial of the first posix_memalign failure, -1: none
    got      |-> << >>,     \* trial -> the region posix_memalign returned for it
    pinFail  |-> -1,        \* the trial at which mlock failed, -1: none
    visited  |-> {},        \* the slots the cleanup loop looked at
    relSlots |-> {},        \* the slots for which cleanup called munlock and free
    wild     |-> FALSE,     \* cleanup called free on an address that was not allocated
    lateOps  |-> 0,         \* posix_memalign, mlock, fread calls after a 0-gap walk
    sentinel |-> FALSE,     \* a first frame read returned 0
    disq     |-> FALSE,     \* the walk under way met an incompatible discontinuity
    disc     |-> 0,         \* discontinuities among the frames of the walk under way
    bad      |-> FALSE,     \* one of them was off the granularity boundary
    relOps   |-> << >>,     \* free_phys_mem: the primitives called, in order
    before   |-> Allocated, \* live regions at entry
    avail    |-> 0,         \* what sysconf(_SC_AVPHYS_PAGES) answered at entry
    unpinErr |-> FALSE,     \* free_phys_mem: munlock reported an error
    round    |-> FALSE ]    \* free_phys_mem: releases the region the call returned

\* the state of a process that has made no call (lines 61-63: statics are zero)
Init ==
  /\ pageSize = 0
  /\ cacheFriendlyFactor = 0
  /\ blockArray = << >>
  /\ regionBytes = [a \in Addrs |-> 0]
  /\ pinned = {}
  /\ held = {}
  /\ pc = [t \in Threads |-> "idle"]
  /\ allocSize = [t \in Threads |-> U32(0, 0)]
  /\ numTrials = [t \in Threads |-> 0]
  /\ trial = [t \in Threads |-> 0]
  /\ bestBlock = [t \in Threads |-> -1]
  /\ bestGapCount = [t \in Threads |-> -1]
  /\ physBlock = [t \in Threads |-> NULL]
  /\ pagemap_fp = [t \in Threads |-> FALSE]
  /\ page = [t \in Threads |-> 0]
  /\ prev_page = [t \in Threads |-> 0]
  /\ pageGaps = [t \in Threads |-> 0]
  /\ unwind = [t \in Threads |-> 0]
  /\ relBlock = [t \in Threads |-> NULL]
  /\ err = [t \in Threads |-> 0]
  /\ argSize = U32(0, 0)
  /\ blockVpn = Vpn(0, 0)
  /\ pagemap_offset = [t \in Threads |-> 0]
  /\ filePos = [t \in Threads |-> Vpn(0, 0)]
  /\ hist = [t \in Threads |-> NewHist]
  /\ procExit = FALSE
  /\ nCalls = 0

\* exit(-1) or abort(): the address space and every thread are gone
ProcessEnds ==
  /\ procExit' = TRUE
  /\ pageSize' = 0
  /\ cacheFriendlyFactor' = 0
  /\ blockArray' = << >>
  /\ regionBytes' = [a \in Addrs |-> 0]
  /\ pinned' = {}
  /\ held' = {}
  /\ pc' = [t \in Threads |-> "idle"]
  /\ allocSize' = [t \in Threads |-> U32(0, 0)]
  /\ numTrials' = [t \in Threads |-> 0]
  /\ trial' = [t \in Threads |-> 0]
  /\ bestBlock' = [t \in Threads |-> -1]
  /\ bestGapCount' = [t \in Threads |-> -1]
  /\ physBlock' = [t \in Threads |-> NULL]
  /\ pagemap_fp' = [t \in Threads |-> FALSE]
  /\ page' = [t \in Threads |-> 0]
  /\ prev_page' = [t \in Threads |-> 0]
  /\ pageGaps' = [t \in Threads |-> 0]
  /\ unwind' = [t \in Threads |-> 0]
  /\ relBlock' = [t \in Threads |-> NULL]
  /\ err' = [t \in Threads |-> 0]
  /\ argSize' = U32(0, 0)
  /\ blockVpn' = Vpn(0, 0)
  /\ pagemap_offset' = [t \in Threads |-> 0]
  /\ filePos' = [t \in Threads |-> Vpn(0, 0)]
  /\ hist' = [t \in Threads |-> NewHist]
  /\ UNCHANGED nCalls

\* the page sizes under which a normalized request fits the page bound
EnvPageSizes == {ps \in SysPageSizes : CACHE_GRANULARITY \div ps <= MaxPages}

\* the answers of sysconf(_SC_AVPHYS_PAGES): few pages, and enough of them for
\* the attempt budget to reach MAX_ATTEMPT
AvailPages == (0..MaxAvail) \cup {2 * MaxPages * MAX_ATTEMPT}

\* the requests a caller makes: 0, tiny, page-aligned and unaligned sizes, and
\* sizes within one page of 2^32
Requests(ps) ==
  {U32(q, r) : q \in (0..MaxPages) \cup {QLimit(ps) - 1}, r \in {0, 10, ps - 1}}

\* the loop body runs once before the budget is looked at
LoopCondDoWhile(tr, nt) == tr = 0 \/ tr < nt

\* line 119: the search loop goes on
LoopCond(tr, nt) == tr < nt

\* lines 59-115: entry, lazy initialisation, sentinel, size normalization,
\* attempt budget, fopen
Enter(t) ==
  /\ ~procExit
  /\ Idle(t)
  /\ nCalls < MaxCalls
  /\ \E ps \in (IF pageSize = 0 THEN EnvPageSizes ELSE {pageSize}) :
     \E s \in Requests(ps), avail \in AvailPages, opened \in BOOLEAN :
       LET n == NormalizeSize(s, ps)
           nt == NumTrials(avail, n)
       IN /\ n.q <= MaxPages
          /\ nt <= MaxTrials \/ ~opened
          /\ pageSize' = ps
          /\ cacheFriendlyFactor' =
               IF pageSize = 0 THEN CacheFriendlyFactor(ps) ELSE cacheFriendlyFactor
          /\ blockArray' = Store(blockArray, 0, NULL)
          /\ allocSize' = [allocSize EXCEPT ![t] = n]
          /\ numTrials' = [numTrials EXCEPT ![t] = nt]
          /\ trial' = [trial EXCEPT ![t] = 0]
          /\ bestBlock' = [bestBlock EXCEPT ![t] = -1]
          /\ bestGapCount' = [bestGapCount EXCEPT ![t] = -1]
          /\ physBlock' = [physBlock EXCEPT ![t] = NULL]
          /\ pagemap_fp' = [pagemap_fp EXCEPT ![t] = opened]
          /\ hist' = [hist EXCEPT ![t] = [NewHist EXCEPT !.avail = avail]]
          /\ pc' = [pc EXCEPT ![t] = IF opened /\ LoopCond(0, nt) THEN "alloc" ELSE "exit"]
  /\ nCalls' = nCalls + 1
  /\ UNCHANGED <<osVars, held, walkVars, unwind, relVars, seekVars>>

ZeroQualified(t) == \E i \in DOMAIN hist[t].score : hist[t].score[i].gaps = 0

Late(t) == IF ZeroQualified(t) THEN 1 ELSE 0

\* lines 138-143: posix_memalign and the test of the slot. On failure glibc
\* leaves the slot as it was.
TrialAlloc(t) ==
  /\ ~procExit
  /\ pc[t] = "alloc"
  /\ LET i == trial[t]
         h == [hist[t] EXCEPT !.nAlloc = @ + 1, !.lateOps = @ + Late(t)]
     IN \/ \E a \in Addrs \ Allocated :
             /\ blockArray' = Store(blockArray, i, a)
             /\ regionBytes' = [regionBytes EXCEPT ![a] = Bytes(allocSize[t])]
             /\ hist' = [hist EXCEPT ![t] =
                           [h EXCEPT !.alloc = @ \cup {a}, !.got = Store(@, i, a)]]
             /\ pc' = [pc EXCEPT ![t] = "pin"]
        \/ \E v \in ReadVals(i) :
             /\ blockArray' = Store(blockArray, i, v)
             /\ regionBytes' = regionBytes
             /\ hist' = [hist EXCEPT ![t] =
                           [h EXCEPT !.failAt = IF @ = -1 THEN i ELSE @]]
             /\ pc' = [pc EXCEPT ![t] = IF v = NULL THEN "exit" ELSE "pin"]
  /\ pageGaps' = [pageGaps EXCEPT ![t] = 0]
  /\ UNCHANGED <<pageSize, cacheFriendlyFactor, pinned, procExit, callerVars,
                 searchVars, page, prev_page, unwind, relVars, seekVars>>

\* lines 145-151: mlock, then the seek to the region's first page
TrialPin(t) ==
  /\ ~procExit
  /\ pc[t] = "pin"
  /\ LET b == blockArray[trial[t]]
         h == [hist[t] EXCEPT !.nPin = @ + 1, !.lateOps = @ + Late(t)]
     IN \/ /\ pinned' = pinned \cup {b}
           /\ hist' = [hist EXCEPT ![t] = [h EXCEPT !.pin = @ \cup {b}]]
           /\ pc' = [pc EXCEPT ![t] = "read"]
        \/ /\ pinned' = pinned
           /\ hist' = [hist EXCEPT ![t] = [h EXCEPT !.pinFail = trial[t]]]
           /\ pc' = [pc EXCEPT ![t] = "exit"]
  /\ page' = [page EXCEPT ![t] = 0]
  /\ UNCHANGED <<procVars, regionBytes, procExit, callerVars, searchVars,
                 prev_page, pageGaps, unwind, relVars, seekVars>>

\* the frames prev, curr are not consecutive, and prev + 1 and curr are both
\* multiples of factor + 1 pages
Aligned(prev, curr, factor) == (prev + 1) % (factor + 1) = 0 /\ curr % (factor + 1) = 0

\* no discontinuity is tolerated
CacheCompatibleNever(prev, curr, factor) == FALSE

\* only the frame after the discontinuity is looked at
CacheCompatibleCurrOnly(prev, curr, factor) == BitAnd(factor, curr) = 0

\* lines 156-160: a discontinuity the caches tolerate
CacheCompatible(prev, curr, factor) == BitAnd(factor, BitOr(prev + 1, curr)) = 0

\* lines 152-174: one fread of the frame walk and its classification. The
\* locals of the loop body are cleared when control leaves it.
ReadFrame(t) ==
  /\ ~procExit
  /\ pc[t] = "read"
  /\ \E f \in Frames :
       LET allocPages == allocSize[t].q
           prev == prev_page[t]
           jump == page[t] # 0 /\ f # prev + 1
           h == [hist[t] EXCEPT !.lateOps = @ + Late(t),
                                !.disc = IF jump THEN @ + 1 ELSE @,
                                !.bad = @ \/ (jump /\ ~Aligned(prev, f, cacheFriendlyFactor))]
       IN IF page[t] # 0
          THEN IF f # prev + 1 /\ ~CacheCompatible(prev, f, cacheFriendlyFactor)
               THEN \* line 161: break out of the walk
                    /\ pc' = [pc EXCEPT ![t] = "score"]
                    /\ hist' = [hist EXCEPT ![t] = [h EXCEPT !.disq = TRUE]]
                    /\ UNCHANGED walkVars
               ELSE /\ pageGaps' = [pageGaps EXCEPT ![t] = IF f # prev + 1 THEN @ + 1 ELSE @]
                    /\ prev_page' = [prev_page EXCEPT ![t] = f]
                    /\ page' = [page EXCEPT ![t] = @ + 1]
                    /\ hist' = [hist EXCEPT ![t] = h]
                    /\ pc' = [pc EXCEPT ![t] =
                                IF page[t] + 1 < allocPages THEN "read" ELSE "score"]
          ELSE IF f = 0
               THEN \* line 171: goto error_exit
                    /\ pc' = [pc EXCEPT ![t] = "exit"]
                    /\ hist' = [hist EXCEPT ![t] = [h EXCEPT !.sentinel = TRUE]]
                    /\ page' = [page EXCEPT ![t] = 0]
                    /\ prev_page' = [prev_page EXCEPT ![t] = 0]
                    /\ pageGaps' = [pageGaps EXCEPT ![t] = 0]
               ELSE /\ prev_page' = [prev_page EXCEPT ![t] = f]
                    /\ page' = [page EXCEPT ![t] = 1]
                    /\ hist' = [hist EXCEPT ![t] = h]
                    /\ pc' = [pc EXCEPT ![t] = IF 1 < allocPages THEN "read" ELSE "score"]
                    /\ UNCHANGED pageGaps
  /\ UNCHANGED <<procVars, osVars, callerVars, searchVars, unwind, relVars, seekVars>>

\* a walk that broke off counts as complete
FullyWalkedAlways(pg, allocPages) == pg <= allocPages

\* line 176: the walk reached the last page of the region
FullyWalked(pg, allocPages) == pg = allocPages

\* a tie replaces the held candidate
IsBetterOrEqual(best, bestGaps, gaps) == best = -1 \/ gaps <= bestGaps

\* line 177: the walked trial replaces the held candidate
IsBetter(best, bestGaps, gaps) == best = -1 \/ gaps < bestGaps

\* the search never stops early
StopSearchNever(bestGaps) == FALSE

\* line 181: nothing can improve on the held candidate
StopSearch(bestGaps) == bestGaps = 0

\* a trial that is not taken as complete is released at once
AfterScoreReleased(regions, b, cand) == IF cand THEN regions ELSE [regions EXCEPT ![b] = 0]

\* lines 176-186: scoring releases nothing, the else branch of line 186 is empty
AfterScore(regions, b, cand) == regions

\* lines 176-187 and the loop step of line 119
ScoreTrial(t) ==
  /\ ~procExit
  /\ pc[t] = "score"
  /\ LET i == trial[t]
         b == blockArray[i]
         full == FullyWalked(page[t], allocSize[t].q)
         take == full /\ IsBetter(bestBlock[t], bestGapCount[t], pageGaps[t])
         gaps == IF hist[t].disq THEN -1 ELSE pageGaps[t]
         entry == [block |-> b, gaps |-> gaps, cand |-> full,
                   disc |-> hist[t].disc, bad |-> hist[t].bad]
     IN /\ hist' = [hist EXCEPT ![t].score = Store(@, i, entry),
                                ![t].disq = FALSE, ![t].disc = 0, ![t].bad = FALSE]
        /\ regionBytes' = AfterScore(regionBytes, b, full)
        /\ physBlock' = [physBlock EXCEPT ![t] = IF take THEN b ELSE @]
        /\ bestBlock' = [bestBlock EXCEPT ![t] = IF take THEN i ELSE @]
        /\ bestGapCount' = [bestGapCount EXCEPT ![t] = IF take THEN pageGaps[t] ELSE @]
        /\ IF take /\ StopSearch(pageGaps[t])
           THEN /\ trial' = trial
                /\ pc' = [pc EXCEPT ![t] = "exit"]
           ELSE /\ trial' = [trial EXCEPT ![t] = i + 1]
                /\ pc' = [pc EXCEPT ![t] = IF LoopCond(i + 1, numTrials[t]) THEN "alloc" ELSE "exit"]
  /\ page' = [page EXCEPT ![t] = 0]
  /\ prev_page' = [prev_page EXCEPT ![t] = 0]
  /\ pageGaps' = [pageGaps EXCEPT ![t] = 0]
  /\ UNCHANGED <<procVars, pinned, procExit, callerVars, allocSize, numTrials,
                 pagemap_fp, unwind, relVars, seekVars>>

\* the index is left as the loop left it
CleanupStartUncorrected(tr, nt) == tr

\* lines 198-200: the slot cleanup starts from
CleanupStart(tr, nt) == IF tr = nt THEN tr - 1 ELSE tr

\* lines 189-204: fclose, the index correction, the start of the cleanup loop
ErrorExit(t) ==
  /\ ~procExit
  /\ pc[t] = "exit"
  /\ \/ /\ pagemap_fp[t]
        /\ ProcessEnds         \* lines 192-195: fclose failed, exit(-1)
     \/ /\ trial' = [trial EXCEPT ![t] = CleanupStart(trial[t], numTrials[t])]
        /\ unwind' = [unwind EXCEPT ![t] = CleanupStart(trial[t], numTrials[t])]
        /\ pc' = [pc EXCEPT ![t] = "cleanup"]
        /\ UNCHANGED <<procVars, osVars, callerVars, allocSize, numTrials, bestBlock,
                       bestGapCount, physBlock, pagemap_fp, walkVars, relVars, hist, seekVars>>

\* line 205: the slot holds a trial that is not the winner
MustRelease(u, best, b) == u # best /\ b # NULL

\* lines 204-215: one round of the cleanup loop. munlock errors are ignored;
\* free of an address that is not a live allocation is undefined: the process
\* goes on or aborts.
CleanupStep(t) ==
  /\ ~procExit
  /\ pc[t] = "cleanup"
  /\ unwind[t] >= 0
  /\ \E b \in ReadVals(unwind[t]) :
       \/ /\ MustRelease(unwind[t], bestBlock[t], b)
          /\ b \notin Allocated
          /\ ProcessEnds
       \/ /\ blockArray' = Store(blockArray, unwind[t], b)
          /\ IF MustRelease(unwind[t], bestBlock[t], b)
             THEN /\ \E ok \in BOOLEAN : pinned' = IF ok THEN pinned \ {b} ELSE pinned
                  /\ regionBytes' = [regionBytes EXCEPT ![b] = 0]
                  /\ hist' = [hist EXCEPT ![t].unpin[b] = @ + 1, ![t].free[b] = @ + 1,
                                           ![t].visited = @ \cup {unwind[t]},
                                           ![t].relSlots = @ \cup {unwind[t]},
                                           ![t].wild = @ \/ b \notin Allocated]
             ELSE /\ hist' = [hist EXCEPT ![t].visited = @ \cup {unwind[t]}]
                  /\ UNCHANGED <<regionBytes, pinned>>
          /\ unwind' = [unwind EXCEPT ![t] = @ - 1]
          /\ UNCHANGED <<pageSize, cacheFriendlyFactor, procExit, callerVars, pc,
                         searchVars, walkVars, relVars, seekVars>>

\* lines 217-233: the fallback allocation is compiled out; return physBlock
Return(t) ==
  /\ ~procExit
  /\ pc[t] = "cleanup"
  /\ unwind[t] < 0
  /\ pc' = [pc EXCEPT ![t] = "done"]
  /\ held' = held \cup ({physBlock[t]} \ {NULL})
  /\ UNCHANGED <<procVars, osVars, nCalls, searchVars, walkVars, unwind, relVars, hist, seekVars>>

\* the history of one free_phys_mem call: what munlock answered, and whether
\* the call gives back the region the caller's last allocate_phys_mem returned
RelHist(h, failed, round) ==
  [NewHist EXCEPT !.before = h.before, !.unpinErr = failed, !.round = round,
                  !.relOps = <<"munlock">>]

\* the answer of munlock is dropped
ErrOfIgnored(answer) == 0

\* line 242: err starts as the answer of munlock
ErrOf(answer) == answer

\* line 242: free_phys_mem is called with a region the caller holds and the
\* size it was allocated with; munlock answers 0 or -1. The locals of the
\* allocate_phys_mem call that came before are gone.
ReleaseUnpin(t) ==
  /\ ~procExit
  /\ Idle(t)
  /\ \E r \in held, ok \in BOOLEAN :
       /\ relBlock' = [relBlock EXCEPT ![t] = r]
       /\ err' = [err EXCEPT ![t] = ErrOf(IF ok THEN 0 ELSE -1)]
       /\ pinned' = IF ok THEN pinned \ {r} ELSE pinned
       /\ hist' = [hist EXCEPT ![t] =
                     RelHist(@, ~ok, pc[t] = "done" /\ r = physBlock[t])]
  /\ pc' = [pc EXCEPT ![t] = "free"]
  /\ allocSize' = [allocSize EXCEPT ![t] = U32(0, 0)]
  /\ numTrials' = [numTrials EXCEPT ![t] = 0]
  /\ trial' = [trial EXCEPT ![t] = 0]
  /\ bestBlock' = [bestBlock EXCEPT ![t] = -1]
  /\ bestGapCount' = [bestGapCount EXCEPT ![t] = -1]
  /\ physBlock' = [physBlock EXCEPT ![t] = NULL]
  /\ pagemap_fp' = [pagemap_fp EXCEPT ![t] = FALSE]
  /\ unwind' = [unwind EXCEPT ![t] = 0]
  /\ UNCHANGED <<procVars, regionBytes, procExit, callerVars, walkVars, argSize, seekVars>>

\* lines 247-250: free, return err
ReleaseFree(t) ==
  /\ ~procExit
  /\ pc[t] = "free"
  /\ \/ /\ relBlock[t] \notin Allocated
        /\ ProcessEnds
     \/ /\ regionBytes' = [regionBytes EXCEPT ![relBlock[t]] = 0]
        /\ held' = held \ {relBlock[t]}
        /\ pc' = [pc EXCEPT ![t] = "freed"]
        /\ hist' = [hist EXCEPT ![t].relOps = Append(@, "free")]
        /\ UNCHANGED <<procVars, pinned, procExit, nCalls, searchVars, walkVars,
                       unwind, relVars, seekVars>>

Next ==
  \E t \in Callers :
    \/ Enter(t)
    \/ TrialAlloc(t)
    \/ TrialPin(t)
    \/ ReadFrame(t)
    \/ ScoreTrial(t)
    \/ ErrorExit(t)
    \/ CleanupStep(t)
    \/ Return(t)
    \/ ReleaseUnpin(t)
    \/ ReleaseFree(t)

Spec == Init /\ [][Next]_vars

\* ------------------------------------------------- two threads of one process
\* allocate_phys_mem is under way for t
Busy(t) == pc[t] \in {"alloc", "pin", "read", "score", "exit", "cleanup"}

\* line 233 in a thread that makes one call: the region goes to the process,
\* the locals of the call are gone
ThreadReturn(t) ==
  /\ ~procExit
  /\ pc[t] = "cleanup"
  /\ unwind[t] < 0
  /\ pc' = [pc EXCEPT ![t] = "ended"]
  /\ held' = held \cup ({physBlock[t]} \ {NULL})
  /\ allocSize' = [allocSize EXCEPT ![t] = U32(0, 0)]
  /\ numTrials' = [numTrials EXCEPT ![t] = 0]
  /\ trial' = [trial EXCEPT ![t] = 0]
  /\ bestBlock' = [bestBlock EXCEPT ![t] = -1]
  /\ bestGapCount' = [bestGapCount EXCEPT ![t] = -1]
  /\ physBlock' = [physBlock EXCEPT ![t] = NULL]
  /\ pagemap_fp' = [pagemap_fp EXCEPT ![t] = FALSE]
  /\ unwind' = [unwind EXCEPT ![t] = 0]
  /\ hist' = [hist EXCEPT ![t] = [NewHist EXCEPT !.before = {}]]
  /\ UNCHANGED <<procVars, osVars, nCalls, walkVars, relVars, seekVars>>

\* a thread calls allocate_phys_mem, holding a mutex from the call to the
\* return
EnterLocked(t) ==
  /\ pc[t] = "idle"
  /\ \A u \in Threads \ {t} : ~Busy(u)
  /\ Enter(t)

NextMutex ==
  \E t \in Threads :
    \/ EnterLocked(t)
    \/ TrialAlloc(t)
    \/ TrialPin(t)
    \/ ReadFrame(t)
    \/ ScoreTrial(t)
    \/ ErrorExit(t)
    \/ CleanupStep(t)
    \/ ThreadReturn(t)

SpecMutex == Init /\ [][NextMutex]_vars

\* a thread calls allocate_phys_mem, whatever the other thread is doing
EnterUnlocked(t) ==
  /\ pc[t] = "idle"
  /\ Enter(t)
  /\ numTrials'[t] <= MaxRaceTrials
  /\ allocSize'[t].q <= MaxRaceTrials

NextRace ==
  \E t \in Threads :
    \/ EnterUnlocked(t)
    \/ TrialAlloc(t)
    \/ TrialPin(t)
    \/ ReadFrame(t)
    \/ ScoreTrial(t)
    \/ ErrorExit(t)
    \/ CleanupStep(t)
    \/ ThreadReturn(t)

SpecRace == Init /\ [][NextRace]_vars

\* --------------------------------------------- size normalization on its own
\* the arguments examined: around 0, around CACHE_GRANULARITY, and up to 2^32 - 1
SizeSamples(ps) ==
  LET g == CACHE_GRANULARITY \div ps
  IN {U32(q, r) : q \in {0, 1, 2, g - 1, g, g + 1, QLimit(ps) - 2, QLimit(ps) - 1},
                  r \in {0, 1, 10, ps - 1}}

InitNorm ==
  /\ pageSize \in SysPageSizes
  /\ argSize \in SizeSamples(pageSize)
  /\ cacheFriendlyFactor = CacheFriendlyFactor(pageSize)
  /\ blockArray = << >>
  /\ regionBytes = [a \in Addrs |-> 0]
  /\ pinned = {}
  /\ held = {}
  /\ pc = [t \in Threads |-> IF t \in Callers THEN "entry" ELSE "idle"]
  /\ allocSize = [t \in Threads |-> IF t \in Callers THEN argSize ELSE U32(0, 0)]
  /\ numTrials = [t \in Threads |-> 0]
  /\ trial = [t \in Threads |-> 0]
  /\ bestBlock = [t \in Threads |-> -1]
  /\ bestGapCount = [t \in Threads |-> -1]
  /\ physBlock = [t \in Threads |-> NULL]
  /\ pagemap_fp = [t \in Threads |-> FALSE]
  /\ page = [t \in Threads |-> 0]
  /\ prev_page = [t \in Threads |-> 0]
  /\ pageGaps = [t \in Threads |-> 0]
  /\ unwind = [t \in Threads |-> 0]
  /\ relBlock = [t \in Threads |-> NULL]
  /\ err = [t \in Threads |-> 0]
  /\ blockVpn = Vpn(0, 0)
  /\ pagemap_offset = [t \in Threads |-> 0]
  /\ filePos = [t \in Threads |-> Vpn(0, 0)]
  /\ hist = [t \in Threads |-> NewHist]
  /\ procExit = FALSE
  /\ nCalls = 0

\* lines 90-101 applied to the argument
NormStep(t) ==
  /\ pc[t] = "entry"
  /\ allocSize' = [allocSize EXCEPT ![t] = NormalizeSize(@, pageSize)]
  /\ pc' = [pc EXCEPT ![t] = "normal"]
  /\ UNCHANGED <<procVars, osVars, callerVars, numTrials, trial, bestBlock, bestGapCount,
                 physBlock, pagemap_fp, walkVars, unwind, relVars, hist, seekVars>>

NextNorm == \E t \in Callers : NormStep(t)

SpecNorm == InitNorm /\ [][NextNorm]_vars

\* ------------------------------------------------ the page-map seek on its own
\* 2^64 / ps / EntryLimit: the page numbers of a 64-bit address space have
\* hi below this
HiLimit(ps) == (1073741824 \div ps) * 32

\* page numbers of region base addresses: those a 32-bit pointer can hold
\* (hi = 0, lo < 2^32 / ps) and those only a 64-bit pointer can hold
VpnSamples(ps) ==
  {Vpn(hi, lo) : hi \in {0, 1, 2, HiLimit(ps) - 1},
                 lo \in {0, 1, QLimit(ps) \div 2, QLimit(ps) - 1, EntryLimit - 1}}

\* line 150: address / pageSize * 8 stored in a uint32_t, in units of one
\* 8-byte entry: (hi * 2^29 + lo) * 8 mod 2^32 = lo * 8
PagemapOffset(vpn) == vpn.lo

InitSeek ==
  /\ pageSize \in SysPageSizes
  /\ blockVpn \in VpnSamples(pageSize)
  /\ cacheFriendlyFactor = CacheFriendlyFactor(pageSize)
  /\ blockArray = << >>
  /\ regionBytes = [a \in Addrs |-> 0]
  /\ pinned = {}
  /\ held = {}
  /\ pc = [t \in Threads |-> IF t \in Callers THEN "seek" ELSE "idle"]
  /\ allocSize = [t \in Threads |-> U32(0, 0)]
  /\ numTrials = [t \in Threads |-> 0]
  /\ trial = [t \in Threads |-> 0]
  /\ bestBlock = [t \in Threads |-> -1]
  /\ bestGapCount = [t \in Threads |-> -1]
  /\ physBlock = [t \in Threads |-> NULL]
  /\ pagemap_fp = [t \in Threads |-> t \in Callers]
  /\ page = [t \in Threads |-> 0]
  /\ prev_page = [t \in Threads |-> 0]
  /\ pageGaps = [t \in Threads |-> 0]
  /\ unwind = [t \in Threads |-> 0]
  /\ relBlock = [t \in Threads |-> NULL]
  /\ err = [t \in Threads |-> 0]
  /\ argSize = U32(0, 0)
  /\ pagemap_offset = [t \in Threads |-> 0]
  /\ filePos = [t \in Threads |-> Vpn(0, 0)]
  /\ hist = [t \in Threads |-> NewHist]
  /\ procExit = FALSE
  /\ nCalls = 0

\* lines 150-152: the offset, fseek to it, page = 0
SeekStep(t) ==
  /\ pc[t] = "seek"
  /\ pagemap_offset' = [pagemap_offset EXCEPT ![t] = PagemapOffset(blockVpn)]
  /\ filePos' = [filePos EXCEPT ![t] = Vpn(0, PagemapOffset(blockVpn))]
  /\ page' = [page EXCEPT ![t] = 0]
  /\ pc' = [pc EXCEPT ![t] = "fread"]
  /\ UNCHANGED <<procVars, osVars, callerVars, searchVars, prev_page, pageGaps, unwind,
                 relVars, blockVpn, hist>>

\* lines 152-153: fread takes the entry at the file position and moves the
\* position on by one entry
FreadStep(t) ==
  /\ pc[t] = "fread"
  /\ page[t] < MaxPages
  /\ filePos' = [filePos EXCEPT ![t] = VpnPlus(@, 1)]
  /\ page' = [page EXCEPT ![t] = @ + 1]
  /\ UNCHANGED <<procVars, osVars, callerVars, pc, searchVars, prev_page, pageGaps, unwind,
                 relVars, blockVpn, pagemap_offset, hist>>

NextSeek == \E t \in Callers : SeekStep(t) \/ FreadStep(t)

SpecSeek == InitSeek /\ [][NextSeek]_vars

\* ------------------------------------------------------------------ claims
\* allocate_phys_mem has returned to caller t
Returned(t) == pc[t] = "done"

\* the trials of t's call whose walk ended without disqualification
Qualified(t) == {i \in DOMAIN hist[t].score : hist[t].score[i].gaps >= 0}

\* C1: when allocate_phys_mem returns, every region it allocated during the
\* call, other than the one it returns, has been unpinned once and released once.
C1_DiscardedReleasedOnce ==
  \A t \in Callers :
    Returned(t) =>
      \A a \in hist[t].alloc \ {physBlock[t]} :
        hist[t].unpin[a] = 1 /\ hist[t].free[a] = 1

\* C2: when the first frame read of some trial returned 0, allocate_phys_mem
\* returns NULL and every region allocated during the call has been unpinned
\* and released.
C2_SentinelFails ==
  \A t \in Callers :
    (Returned(t) /\ hist[t].sentinel) =>
      /\ physBlock[t] = NULL
      /\ \A a \in hist[t].alloc : hist[t].unpin[a] >= 1 /\ hist[t].free[a] >= 1

\* C3: a returned region is the region of the qualified trial with the least
\* gap count, the one of lowest index among those of least gap count.
C3_MinGapsFirstFound ==
  \A t \in Callers :
    (Returned(t) /\ physBlock[t] # NULL) =>
      LET sc == hist[t].score
          b == bestBlock[t]
      IN /\ b \in Qualified(t)
         /\ physBlock[t] = sc[b].block
         /\ \A i \in Qualified(t) :
              sc[b].gaps < sc[i].gaps \/ (sc[b].gaps = sc[i].gaps /\ b <= i)

\* a call returned the earlier of two qualified trials of equal gap count
C3_Witness ==
  \E t \in Callers :
    /\ Returned(t) /\ physBlock[t] # NULL
    /\ \E i \in Qualified(t) :
         /\ i > bestBlock[t]
         /\ hist[t].score[i].gaps = hist[t].score[bestBlock[t]].gaps

\* C4: once a trial has qualified with gap count 0, the call makes no further
\* posix_memalign, mlock or fread call, and it returns that trial's region.
C4_ZeroGapStops ==
  \A t \in Callers :
    /\ hist[t].lateOps = 0
    /\ (Returned(t) /\ ZeroQualified(t)) =>
         \E i \in Qualified(t) :
           hist[t].score[i].gaps = 0 /\ physBlock[t] = hist[t].score[i].block

\* a call returned a 0-gap trial with attempts of its budget left
C4_Witness ==
  \E t \in Callers :
    Returned(t) /\ ZeroQualified(t) /\ trial[t] + 1 < numTrials[t] /\ physBlock[t] # NULL

\* C5: the normalized size is a positive multiple of pageSize, at least
\* CACHE_GRANULARITY, and at least the argument rounded up to a page; with
\* 4096-byte pages, 10 bytes and 1 MiB both normalize to 1 MiB.
C5_NormalizedNeverShrinks ==
  \A t \in Callers :
    pc[t] = "normal" =>
      LET n == allocSize[t]
          s == argSize
      IN /\ n.r = 0 /\ n.q > 0
         /\ ~LessConst(n, CACHE_GRANULARITY, pageSize)
         /\ n.q >= s.q + (IF s.r > 0 THEN 1 ELSE 0)
         /\ (pageSize = 4096 /\ s \in {U32(0, 10), U32(256, 0)}) => n = U32(256, 0)

\* C6: a call whose attempt budget is 0 returns NULL and calls neither
\* posix_memalign, mlock, munlock nor free.
C6_ZeroBudgetTouchesNothing ==
  \A t \in Callers :
    (Returned(t) /\ numTrials[t] = 0) =>
      /\ physBlock[t] = NULL
      /\ hist[t].nAlloc = 0 /\ hist[t].nPin = 0
      /\ \A a \in Addrs : hist[t].unpin[a] = 0 /\ hist[t].free[a] = 0

\* a call with budget 0 returned although the page map could be opened
C6_Witness ==
  \E t \in Callers : Returned(t) /\ numTrials[t] = 0 /\ pagemap_fp[t]

\* C7: a returned region was allocated with the normalized size and pinned
\* during the call, its walk was completed without disqualification, and it
\* is still allocated and pinned: cleanup neither unpinned nor released it.
C7_ReturnedRegionLive ==
  \A t \in Callers :
    (Returned(t) /\ physBlock[t] # NULL) =>
      LET r == physBlock[t]
      IN /\ r \in hist[t].alloc
         /\ r \in hist[t].pin
         /\ regionBytes[r] = Bytes(allocSize[t])
         /\ bestBlock[t] \in Qualified(t)
         /\ hist[t].score[bestBlock[t]].block = r
         /\ r \in Allocated /\ r \in pinned
         /\ hist[t].unpin[r] = 0 /\ hist[t].free[r] = 0

\* C8: a call none of whose trials completed its walk without
\* disqualification returns NULL.
C8_NoQualifiedTrialNull ==
  \A t \in Callers :
    (Returned(t) /\ Qualified(t) = {}) => physBlock[t] = NULL

\* a call returned after trials that were all disqualified
C8_Witness ==
  \E t \in Callers :
    /\ Returned(t) /\ Qualified(t) = {}
    /\ Cardinality(DOMAIN hist[t].score) >= 2

\* free_phys_mem has returned to caller t
Released(t) == pc[t] = "freed"

\* C9: free_phys_mem of the region a call has just returned, with munlock
\* succeeding, returns 0 and leaves the region neither pinned nor allocated,
\* and the live regions are those of before the call.
C9_RoundTrip ==
  \A t \in Callers :
    (Released(t) /\ hist[t].round /\ ~hist[t].unpinErr) =>
      /\ err[t] = 0
      /\ relBlock[t] \notin pinned
      /\ relBlock[t] \notin Allocated
      /\ Allocated = hist[t].before

\* C10: free_phys_mem calls munlock, then free; it returns non-zero exactly
\* when munlock reported an error, and the region is released either way.
C10_ReleaseReportsUnpin ==
  \A t \in Callers :
    /\ pc[t] = "free" => hist[t].relOps = <<"munlock">>
    /\ Released(t) =>
         /\ hist[t].relOps = <<"munlock", "free">>
         /\ (err[t] # 0) <=> hist[t].unpinErr
         /\ relBlock[t] \notin Allocated

\* free_phys_mem returned after munlock reported an error
C10_Witness ==
  \E t \in Callers : Released(t) /\ hist[t].unpinErr /\ err[t] # 0

\* C11: a scored trial none of whose discontinuities is off the granularity
\* boundary (prev + 1 and curr both multiples of cacheFriendlyFactor + 1) was
\* taken as complete by the scorer, with a gap count equal to the number of
\* its discontinuities; without discontinuity the gap count is 0.
C11_AlignedWalkQualifies ==
  \A t \in Callers :
    \A i \in DOMAIN hist[t].score :
      LET e == hist[t].score[i]
      IN ~e.bad => e.cand /\ e.gaps = e.disc

\* a call returned after scoring a walk with an aligned discontinuity and one
\* with none
C11_Witness ==
  \E t \in Callers :
    /\ Returned(t)
    /\ \E i, j \in DOMAIN hist[t].score :
         /\ ~hist[t].score[i].bad /\ hist[t].score[i].disc >= 1
         /\ hist[t].score[j].disc = 0

\* C12: a trial whose walk met a discontinuity off the granularity boundary
\* is not taken as complete, is not the best candidate at any time, and is
\* not the trial whose region is returned.
C12_MisalignedNeverCandidate ==
  \A t \in Callers :
    /\ \A i \in DOMAIN hist[t].score :
         hist[t].score[i].bad =>
           /\ ~hist[t].score[i].cand
           /\ hist[t].score[i].gaps = -1
           /\ bestBlock[t] # i
    /\ (Returned(t) /\ physBlock[t] # NULL) =>
         /\ bestBlock[t] \in DOMAIN hist[t].score
         /\ ~hist[t].score[bestBlock[t]].bad
         /\ physBlock[t] = hist[t].score[bestBlock[t]].block

\* a call returned a region although another trial had gathered an aligned gap
\* before it met a misaligned one
C12_Witness ==
  \E t \in Callers :
    /\ Returned(t) /\ physBlock[t] # NULL
    /\ \E i \in DOMAIN hist[t].score :
         hist[t].score[i].bad /\ hist[t].score[i].disc >= 2

\* allocate_phys_mem is under way for t, or has returned to it
InCall(t) == pc[t] \in {"alloc", "pin", "read", "score", "exit", "cleanup", "done"}

\* C13: the attempt budget, the number of posix_memalign calls and the number
\* of regions allocated in a call are at most
\* min(MAX_ATTEMPT, floor(floor(available pages / pages per trial) * 3 / 4)),
\* the pages of all these regions are at most 3/4 of the available pages,
\* and no blockArray slot at or beyond MAX_ATTEMPT is written.
C13_BudgetBound ==
  \A t \in Callers :
    InCall(t) =>
      LET p == allocSize[t].q
          quota == ((hist[t].avail \div p) * 3) \div 4
          budget == IF quota < MAX_ATTEMPT THEN quota ELSE MAX_ATTEMPT
      IN /\ numTrials[t] <= budget
         /\ hist[t].nAlloc <= budget
         /\ Cardinality(hist[t].alloc) <= budget
         /\ 4 * p * Cardinality(hist[t].alloc) <= 3 * hist[t].avail
         /\ \A i \in DOMAIN blockArray : i < MAX_ATTEMPT

\* a call allocated as many regions as its budget allows: one more region
\* would exceed 3/4 of the available pages
C13_Witness ==
  \E t \in Callers :
    /\ Returned(t)
    /\ numTrials[t] >= 2
    /\ Cardinality(hist[t].alloc) = numTrials[t]
    /\ 4 * allocSize[t].q * (numTrials[t] + 1) > 3 * hist[t].avail

\* C14: once posix_memalign has failed at trial i, the search loop is over:
\* the call is at error_exit, in cleanup or has returned, posix_memalign was
\* not called again, trial i was not scored, and cleanup calls neither
\* munlock nor free for slot i.
C14_AllocFailureEndsLoop ==
  \A t \in Callers :
    hist[t].failAt # -1 =>
      LET i == hist[t].failAt
      IN /\ pc[t] \in {"exit", "cleanup", "done"}
         /\ trial[t] = i
         /\ hist[t].nAlloc = i + 1
         /\ i \notin DOMAIN hist[t].score
         /\ i \notin hist[t].relSlots

\* C15: once mlock has failed at trial i, the search loop is over (no frame
\* read, no scoring of trial i, no further posix_memalign call); the region
\* allocated for trial i is not selected; when the call returns, cleanup has
\* unpinned and released that region once, and the call returns the region of
\* the best trial before i (fewest gaps, first found), or NULL if there is none.
C15_PinFailureEndsLoop ==
  \A t \in Callers :
    hist[t].pinFail # -1 =>
      LET i == hist[t].pinFail
          sc == hist[t].score
      IN /\ pc[t] \in {"exit", "cleanup", "done"}
         /\ trial[t] = i
         /\ hist[t].nAlloc = i + 1
         /\ i \notin DOMAIN sc
         /\ bestBlock[t] # i
         /\ i \in DOMAIN hist[t].got =>
              /\ physBlock[t] # hist[t].got[i]
              /\ Returned(t) =>
                   hist[t].unpin[hist[t].got[i]] = 1 /\ hist[t].free[hist[t].got[i]] = 1
         /\ Returned(t) =>
              IF Qualified(t) = {} THEN physBlock[t] = NULL
              ELSE \E b \in Qualified(t) :
                     /\ physBlock[t] = sc[b].block
                     /\ \A j \in Qualified(t) :
                          sc[b].gaps < sc[j].gaps \/ (sc[b].gaps = sc[j].gaps /\ b <= j)

\* the search loop of t's call is under way
Searching(t) == pc[t] \in {"alloc", "pin", "read", "score"}

\* C16 as stated: once the next trial's posix_memalign has been called, the
\* region of a disqualified trial has been unpinned and released; a trial
\* that qualified is still allocated while the search goes on.
C16_DisqualifiedDestroyedAtOnce ==
  \A t \in Callers :
    \A i \in DOMAIN hist[t].score \cap DOMAIN hist[t].got :
      LET a == hist[t].got[i]
      IN /\ (hist[t].score[i].gaps = -1 /\ hist[t].nAlloc > i + 1) =>
              hist[t].unpin[a] >= 1 /\ hist[t].free[a] >= 1
         /\ (hist[t].score[i].gaps >= 0 /\ Searching(t)) => a \in Allocated

\* C16 amended: while the search loop is under way no trial region has been
\* unpinned or released: the region of every trial started so far, also of a
\* disqualified one, is still allocated, and still pinned if it was scored.
C16_TrialsKeptUntilSearchEnds ==
  \A t \in Callers :
    Searching(t) =>
      \A i \in DOMAIN hist[t].got :
        LET a == hist[t].got[i]
        IN /\ hist[t].unpin[a] = 0 /\ hist[t].free[a] = 0
           /\ a \in Allocated
           /\ i \in DOMAIN hist[t].score => a \in pinned

\* the region of the next trial has been allocated while a disqualified trial
\* is still allocated and pinned
C16_Witness ==
  \E t \in Callers :
    /\ pc[t] = "pin"
    /\ \E i \in DOMAIN hist[t].score \cap DOMAIN hist[t].got :
         /\ hist[t].score[i].gaps = -1
         /\ trial[t] \in DOMAIN hist[t].got
         /\ hist[t].got[i] \in Allocated \cap pinned

\* the slots of the trials started in t's call: each started trial calls
\* posix_memalign once
StartedSlots(t) == 0 .. (hist[t].nAlloc - 1)

\* C17 as stated: cleanup looks only at slots of trials started in the call;
\* every slot it looks at is below the attempt budget and below MAX_ATTEMPT;
\* when the call returns after starting a trial, the slots looked at are
\* those up to the last started trial; cleanup unpins and releases no slot
\* of a trial that was not started.
C17_CleanupOnlyStartedSlots ==
  \A t \in Callers :
    /\ hist[t].visited \subseteq StartedSlots(t)
    /\ hist[t].relSlots \subseteq StartedSlots(t)
    /\ \A u \in hist[t].visited : u < numTrials[t] /\ u < MAX_ATTEMPT
    /\ Returned(t) => hist[t].visited = StartedSlots(t)

\* C17 amended: as stated, except that a call that started no trial although
\* its budget is positive (the page map could not be opened) looks at slot 0,
\* which holds the null pointer stored at entry, and releases nothing.
C17_CleanupStartedSlotsOrSentinel ==
  \A t \in Callers :
    LET sentinelOnly == InCall(t) /\ hist[t].nAlloc = 0 /\ numTrials[t] > 0
        slots == IF sentinelOnly THEN {0} ELSE StartedSlots(t)
    IN /\ hist[t].visited \subseteq slots
       /\ hist[t].relSlots \subseteq StartedSlots(t)
       /\ \A u \in hist[t].visited : u < numTrials[t] /\ u < MAX_ATTEMPT
       /\ Returned(t) => hist[t].visited = slots
       /\ (Returned(t) /\ numTrials[t] = 0) => hist[t].visited = {}

\* a call returned whose loop ran to the attempt budget without breaking
C17_Witness ==
  \E t \in Callers :
    /\ Returned(t)
    /\ numTrials[t] >= 2
    /\ DOMAIN hist[t].score = 0 .. (numTrials[t] - 1)
    /\ hist[t].visited = 0 .. (numTrials[t] - 1)

\* C19: while a call is under way, a region the caller holds from an earlier
\* call is not pinned, walked, scored, selected, unpinned or released by it;
\* the call pins, unpins and releases only regions it allocated itself.
C19_CallsTouchOwnRegionsOnly ==
  \A t \in Callers :
    pc[t] \in {"alloc", "pin", "read", "score", "exit", "cleanup"} =>
      /\ \A a \in held :
           /\ a \notin hist[t].pin
           /\ hist[t].unpin[a] = 0 /\ hist[t].free[a] = 0
           /\ physBlock[t] # a
      /\ \A i \in DOMAIN hist[t].score : hist[t].score[i].block \notin held
      /\ pc[t] \in {"pin", "read", "score"} => blockArray[trial[t]] \notin held
      /\ hist[t].pin \subseteq hist[t].alloc
      /\ \A a \in Addrs : hist[t].free[a] > 0 => a \in hist[t].alloc

\* C20: after the seek, the entry index at which the walk starts is the page
\* number of the region's base address, for every base address of a 64-bit
\* address space, and the fread of page k takes the entry of the region's
\* k-th page.
C20_SeekReachesFirstPage ==
  \A t \in Callers :
    pc[t] = "fread" =>
      /\ Vpn(0, pagemap_offset[t]) = blockVpn
      /\ filePos[t] = VpnPlus(blockVpn, page[t])

\* no thread is inside allocate_phys_mem
Quiet == \A t \in Threads : ~Busy(t)

\* a region was released twice, or a region a call returned is no longer
\* allocated, or, with no call under way, an allocated region was returned to
\* nobody
Interference ==
  \/ \E t \in Threads : hist[t].wild \/ \E a \in Addrs : hist[t].free[a] >= 2
  \/ \E a \in held : a \notin Allocated
  \/ Quiet /\ \E a \in Allocated : a \notin held

\* C18: when the calls of two threads are serialized by a mutex held from
\* call to return, no region is released twice, no returned region has been
\* released by the other call, and no allocated region is left unreleased.
C18_MutexMakesSafe == ~Interference

\* without the mutex an interleaving of two calls in which posix_memalign
\* never fails reaches such a state
C18_RaceInterferes == Interference /\ \A t \in Threads : hist[t].failAt = -1

====
